---- MODULE Spec2Model ----
(***************************************************************************)
(* Media-intelligence dashboard (src/streamlitmediaintelapp.py).           *)
(*                                                                         *)
(* The Streamlit script is re-executed from top to bottom on every user    *)
(* interaction; st.session_state is the only state that survives a run.    *)
(* One action of Spec is one complete script run.  clean_data and          *)
(* generate_charts_and_insights are operators, computed the way pandas     *)
(* computes them on the DataFrames the script hands them.                  *)
(*                                                                         *)
(* A script run is taken to execute to its end, to st.stop(), or to the    *)
(* except clause of line 276; a run pre-empted by the Streamlit runtime    *)
(* while it is executing is not modelled.                                  *)
(***************************************************************************)
EXTENDS Integers, Sequences, FiniteSets, TLC

VARIABLES
    uploaded_file,   \* st.file_uploader widget: <<>> (no file) or <<raw DataFrame>>
    session_state,   \* st.session_state: [dashboard_output, cleaned_df]
    run,             \* history: what the last script run did
    dash_src,        \* history: the DataFrame session_state.dashboard_output was computed from
    arg,             \* function-level specifications: the input
    ret,             \* function-level specifications: the result
    ret2             \* function-level specifications: the result of the second application

vars == <<uploaded_file, session_state, run, dash_src, arg, ret, ret2>>

-----------------------------------------------------------------------------
(* Bounds of the model *)

\* rows of an uploaded file in the function-level specifications
MaxRows == 2
\* rows appended to a base Canonical Dataset in the aggregation specification
MaxExtraRows == 2
\* insight requests that may fail within one run of the session specification
MaxFailures == 1

-----------------------------------------------------------------------------
(* Strings that the code transforms are sequences of characters *)

Upper == <<"A","B","C","D","E","F","G","H","I","J","K","L","M",
           "N","O","P","Q","R","S","T","U","V","W","X","Y","Z">>
Lower == <<"a","b","c","d","e","f","g","h","i","j","k","l","m",
           "n","o","p","q","r","s","t","u","v","w","x","y","z">>

\* str.lower() on one character
LowerChar(c) ==
    IF \E i \in 1..Len(Upper) : Upper[i] = c
    THEN Lower[CHOOSE i \in 1..Len(Upper) : Upper[i] = c]
    ELSE c

\* variant of StrLower: the case is kept
StrKeepCase(name) == name

\* str.lower()
StrLower(name) == [i \in 1..Len(name) |-> LowerChar(name[i])]

\* variant of StrReplaceSpace: the spaces are kept
StrKeepSpace(name) == name

\* str.replace(' ', '_')
StrReplaceSpace(name) == [i \in 1..Len(name) |-> IF name[i] = " " THEN "_" ELSE name[i]]

\* the column labels the script reads and writes
Date        == <<"D","a","t","e">>
Platform    == <<"P","l","a","t","f","o","r","m">>
Sentiment   == <<"S","e","n","t","i","m","e","n","t">>
Location    == <<"L","o","c","a","t","i","o","n">>
Engagements == <<"E","n","g","a","g","e","m","e","n","t","s">>
MediaType   == <<"M","e","d","i","a"," ","T","y","p","e">>

date        == <<"d","a","t","e">>
platform    == <<"p","l","a","t","f","o","r","m">>
sentiment   == <<"s","e","n","t","i","m","e","n","t">>
location    == <<"l","o","c","a","t","i","o","n">>
engagements == <<"e","n","g","a","g","e","m","e","n","t","s">>
media_type  == <<"m","e","d","i","a","_","t","y","p","e">>

\* a column the script never reads
Notes       == <<"N","o","t","e","s">>

required_cols == <<Date, Platform, Sentiment, Location, Engagements, MediaType>>

-----------------------------------------------------------------------------
(* Cells and DataFrames *)

\* one cell of a DataFrame: kind k, number n, text s
NaN          == [k |-> "nan",   n |-> 0, s |-> ""]
NaT          == [k |-> "nat",   n |-> 0, s |-> ""]
Text(s)      == [k |-> "str",   n |-> 0, s |-> s]
\* a float64 value, in tenths (125 is 12.5)
Float(t)     == [k |-> "float", n |-> t, s |-> ""]
Int64(v)     == [k |-> "int",   n |-> v, s |-> ""]
\* a datetime64 value, in days since 1970-01-01
Timestamp(d) == [k |-> "ts",    n |-> d, s |-> ""]

IsNull(c) == c.k \in {"nan", "nat"}

\* a DataFrame: column labels in order, and the rows (each aligned with columns)
DataFrame(cols, rows) == [columns |-> cols, rows |-> rows]

\* the positions of the columns labelled `label`
Positions(df, label) == {i \in 1..Len(df.columns) : df.columns[i] = label}

\* df[label] for a label that names exactly one column
Column(df, label) ==
    LET p == CHOOSE i \in Positions(df, label) : TRUE
    IN  [r \in 1..Len(df.rows) |-> df.rows[r][p]]

\* df[label] = values, for a label that names exactly one column
SetColumn(df, label, values) ==
    LET p == CHOOSE i \in Positions(df, label) : TRUE
    IN  [df EXCEPT !.rows = [r \in 1..Len(df.rows) |-> [df.rows[r] EXCEPT ![p] = values[r]]]]

SeqToSet(s) == {s[i] : i \in 1..Len(s)}

\* the dates the model's files hold, with the day pandas parses each to
DateGrammar ==
    ("2023-01-01" :> 19358) @@ ("2023-01-05" :> 19362) @@ ("2023-01-10" :> 19367)

\* pd.to_datetime on one value is defined for it
DateParses(c) ==
    \/ c.k \in {"ts", "nan", "nat"}
    \/ c.k = "str" /\ c.s \in DOMAIN DateGrammar

\* pd.to_datetime on one value
ToDatetime(c) ==
    CASE c.k = "ts"  -> c
      [] c.k = "str" -> Timestamp(DateGrammar[c.s])
      [] OTHER       -> NaT

\* float -> int conversion of astype(int): truncation toward zero
Trunc(t) == IF t >= 0 THEN t \div 10 ELSE -((-t) \div 10)

\* variant of FillNa0: the missing value is kept
FillNaKeep(c) == c

\* fillna(0) on one value
FillNa0(c) == IF IsNull(c) THEN Int64(0) ELSE c

\* astype(int) on one value is defined for it (int('abc') raises ValueError)
IntCastable(c) == c.k \in {"float", "int"}

\* astype(int) on one value
AsTypeInt(c) == IF c.k = "float" THEN Int64(Trunc(c.n)) ELSE c

-----------------------------------------------------------------------------
(* clean_data *)

\* the outcome of a call: err = "" and the value, or the exception raised
Returned(df) == [err |-> "", df |-> df]
Raised(e)    == [err |-> e, df |-> DataFrame(<<>>, <<>>)]

\* df.columns.str.lower().str.replace(' ', '_')
NormalizeColumns(cols) == [i \in 1..Len(cols) |-> StrReplaceSpace(StrLower(cols[i]))]

\* clean_data(df): df['Date'] is read first, then df['Engagements'], then the
\* labels are rewritten
clean_data(df) ==
    IF Positions(df, Date) = {} THEN Raised("KeyError: 'Date'")
    ELSE
    LET dates == Column(df, Date) IN
    IF \E r \in 1..Len(df.rows) : ~DateParses(dates[r]) THEN Raised("DateParseError")
    ELSE
    LET df1 == SetColumn(df, Date, [r \in 1..Len(df.rows) |-> ToDatetime(dates[r])]) IN
    IF Positions(df1, Engagements) = {} THEN Raised("KeyError: 'Engagements'")
    ELSE
    LET filled == [r \in 1..Len(df1.rows) |-> FillNa0(Column(df1, Engagements)[r])] IN
    IF \E r \in 1..Len(df1.rows) : ~IntCastable(filled[r]) THEN Raised("ValueError")
    ELSE
    LET df2 == SetColumn(df1, Engagements, [r \in 1..Len(df1.rows) |-> AsTypeInt(filled[r])])
    IN  Returned([df2 EXCEPT !.columns = NormalizeColumns(df2.columns)])

-----------------------------------------------------------------------------
(* generate_mock_data *)

MockRow(d, p, s, l, e, m) == <<Timestamp(d), Text(p), Text(s), Text(l), e, Text(m)>>

\* the DataFrame of generate_mock_data: Date is already datetime64, and the
\* None among the Engagements makes the column float64 with a NaN
generate_mock_data ==
    DataFrame(required_cols, <<
        MockRow(19358, "Twitter",   "Positive", "New York", Float(1200), "Text"),
        MockRow(19362, "Facebook",  "Negative", "London",   Float(800),  "Image"),
        MockRow(19367, "Instagram", "Neutral",  "Paris",    Float(500),  "Video"),
        MockRow(19372, "Twitter",   "Positive", "New York", Float(1500), "Text"),
        MockRow(19377, "LinkedIn",  "Positive", "Tokyo",    NaN,         "Link"),
        MockRow(19382, "TikTok",    "Negative", "Sydney",   Float(1000), "Video"),
        MockRow(19387, "Twitter",   "Neutral",  "London",   Float(700),  "Image") >>)

-----------------------------------------------------------------------------
(* generate_charts_and_insights: the five tables *)

RECURSIVE SumOver(_, _)
\* the sum of f over the finite set S
SumOver(f, S) ==
    IF S = {} THEN 0
    ELSE LET x == CHOOSE y \in S : TRUE IN f[x] + SumOver(f, S \ {x})

\* the rows of a column that hold a value (pandas drops NaN keys)
NonNull(col) == {r \in 1..Len(col) : ~IsNull(col[r])}

\* variant of value_counts: NaN is counted as a value of its own (dropna=False)
value_counts_keepna(col) ==
    [v \in {col[r].s : r \in 1..Len(col)} |-> Cardinality({r \in 1..Len(col) : col[r].s = v})]

\* Series.value_counts(): value -> number of rows holding it; NaN is dropped
\* (dropna=True is the default)
value_counts(col) ==
    [v \in {col[r].s : r \in NonNull(col)} |-> Cardinality({r \in NonNull(col) : col[r].s = v})]

\* df.groupby(key)[value].sum() for a text key: key -> summed value; rows with
\* a NaN key are dropped
groupby_sum(keys, values) ==
    [g \in {keys[r].s : r \in NonNull(keys)} |->
        SumOver([r \in 1..Len(values) |-> values[r].n], {r \in NonNull(keys) : keys[r].s = g})]

\* the Monday that starts the week of day d (period 'W' is the week ending on
\* Sunday; to_timestamp gives its first day; 1970-01-01 was a Thursday)
WeekStart(d) == d - ((d + 3) % 7)

\* df.groupby(df['date'].dt.to_period('W'))['engagements'].sum(): week -> sum;
\* rows with a NaT date are dropped
weekly_sum(dates, values) ==
    [w \in {WeekStart(dates[r].n) : r \in NonNull(dates)} |->
        SumOver([r \in 1..Len(values) |-> values[r].n],
                {r \in NonNull(dates) : WeekStart(dates[r].n) = w})]

\* the location names of the model's files in the order Python compares str
SortedStrings == <<"Berlin", "London", "New York", "Paris", "Sydney", "Tokyo">>

StrRank(s) == CHOOSE i \in 1..Len(SortedStrings) : SortedStrings[i] = s

\* the limit of nlargest in generate_charts_and_insights
TopN == 5

RECURSIVE nlargest_keep_last(_, _, _)
\* variant of nlargest: among equal values the one that comes last (keep='last')
nlargest_keep_last(n, g, S) ==
    IF n = 0 \/ S = {} THEN <<>>
    ELSE LET best == CHOOSE k \in S : \A j \in S :
                        \/ g[k] > g[j]
                        \/ g[k] = g[j] /\ StrRank(k) >= StrRank(j)
         IN  <<[location |-> best, engagements |-> g[best]]>>
             \o nlargest_keep_last(n - 1, g, S \ {best})

RECURSIVE nlargest(_, _, _)
\* Series.nlargest(n) (keep='first') on a groupby result g restricted to the
\* keys S: the largest value first; among equal values the one that comes
\* first in the Series, and groupby has sorted the Series by key
nlargest(n, g, S) ==
    IF n = 0 \/ S = {} THEN <<>>
    ELSE LET best == CHOOSE k \in S : \A j \in S :
                        \/ g[k] > g[j]
                        \/ g[k] = g[j] /\ StrRank(k) <= StrRank(j)
         IN  <<[location |-> best, engagements |-> g[best]]>> \o nlargest(n - 1, g, S \ {best})

\* df.groupby('location')['engagements'].sum().nlargest(5)
top_locations(df) ==
    LET g == groupby_sum(Column(df, location), Column(df, engagements))
    IN  nlargest(TopN, g, DOMAIN g)

\* the keys of dashboard_data in insertion order
Keys == <<"sentiment_breakdown", "engagement_trend", "platform_engagements",
          "media_type_mix", "top_locations">>

\* one entry of dashboard_data as the function first stores it: the chart
\* (here the table it is drawn from) and no insight yet
Entry(title, table) == [title |-> title, chart |-> table, insights |-> <<>>]

\* dashboard_data before the insight loop
Charts(df) ==
    ("sentiment_breakdown" :>
        Entry("Sentiment Breakdown", value_counts(Column(df, sentiment)))) @@
    ("engagement_trend" :>
        Entry("Engagement Trend over Time",
              weekly_sum(Column(df, date), Column(df, engagements)))) @@
    ("platform_engagements" :>
        Entry("Platform Engagements",
              groupby_sum(Column(df, platform), Column(df, engagements)))) @@
    ("media_type_mix" :>
        Entry("Media Type Mix", value_counts(Column(df, media_type)))) @@
    ("top_locations" :>
        Entry("Top 5 Locations by Engagements", top_locations(df)))

-----------------------------------------------------------------------------
(* generate_charts_and_insights: the insights *)

\* what one model.generate_content call gives: a list of strings, or an exception
Answer(list) == [ok |-> TRUE, insights |-> list]
Failure      == [ok |-> FALSE, insights |-> <<>>]

Placeholder == <<"Gagal menghasilkan insight.">>

\* variant of InsightStep: a failed request overwrites every insight list
InsightStepClobber(data, key, answer) ==
    IF answer.ok
    THEN [data EXCEPT ![key].insights = answer.insights]
    ELSE [k \in DOMAIN data |-> [data[k] EXCEPT !.insights = Placeholder]]

\* one iteration of the loop over dashboard_data.items(): the try/except
InsightStep(data, key, answer) ==
    IF answer.ok
    THEN [data EXCEPT ![key].insights = answer.insights]
    ELSE [data EXCEPT ![key].insights = Placeholder]

RECURSIVE InsightLoop(_, _, _)
\* the loop from the i-th key on
InsightLoop(i, data, answers) ==
    IF i > Len(Keys) THEN data
    ELSE InsightLoop(i + 1, InsightStep(data, Keys[i], answers[Keys[i]]), answers)

\* variant of NoInsights: every insight list becomes the placeholder
NoInsightsPlaceholder(data) == [k \in DOMAIN data |-> [data[k] EXCEPT !.insights = Placeholder]]

\* the else branch of `if api_key_configured`: st.info only, dashboard_data untouched
NoInsights(data) == data

\* the outcome of a call that returns dashboard_data
ReturnedData(data) == [err |-> "", data |-> data]
RaisedData(e)      == [err |-> e, data |-> <<>>]

\* generate_charts_and_insights(df); df['date'] is a DataFrame, which has no
\* .dt, when two columns are labelled 'date'
generate_charts_and_insights(df, api_key_configured, answers) ==
    IF Cardinality(Positions(df, date)) # 1 THEN RaisedData("AttributeError")
    ELSE IF api_key_configured
         THEN ReturnedData(InsightLoop(1, Charts(df), answers))
         ELSE ReturnedData(NoInsights(Charts(df)))

-----------------------------------------------------------------------------
(* The files the model uploads *)

SeqsUpTo(S, n) == UNION {[1..k -> S] : k \in 0..n}

\* one CSV line, by column label; the columns Notes and date exist only in
\* files whose header names them
Line(d, p, s, l, e, m) ==
    (Date :> d) @@ (Platform :> p) @@ (Sentiment :> s) @@ (Location :> l) @@
    (Engagements :> e) @@ (MediaType :> m) @@ (Notes :> Text("n/a")) @@ (date :> Text("n/a"))

\* a CSV file: the header line, and the cells of each line under it
CsvFile(header, lines) ==
    [header |-> header,
     rows   |-> [r \in 1..Len(lines) |-> [i \in 1..Len(header) |-> lines[r][header[i]]]]]

\* pd.read_csv on a file it can read: the header's labels in the file's
\* order, one row per line
read_csv(file) == DataFrame(file.header, file.rows)

\* the required columns in another order
ShuffledHeader == <<MediaType, Engagements, Date, Location, Sentiment, Platform>>

\* headers that pass validation
ValidHeaders ==
    { required_cols, ShuffledHeader, Append(required_cols, Notes), <<date>> \o required_cols }

\* the lines of the function-level specification of clean_data
CleanLines ==
    { Line(d, Text("Twitter"), Text("Positive"), Text("London"), e, Text("Image")) :
        d \in {Text("2023-01-01"), Text("not a date"), NaN},
        e \in {Float(1200), Float(125), Float(-35), NaN, Text("abc")} }

CleanInputs ==
    { read_csv(CsvFile(h, ls)) : h \in ValidHeaders, ls \in SeqsUpTo(CleanLines, MaxRows) }

-----------------------------------------------------------------------------
(* Function-level specification of clean_data *)

\* no script run yet
Idle == [kind |-> "none", outcome |-> "none", error |-> "", missing |-> <<>>,
         cleaned |-> FALSE, aggregated |-> FALSE, prior |-> FALSE]

InitClean ==
    /\ arg \in CleanInputs
    /\ ret = <<>>
    /\ ret2 = <<>>
    /\ uploaded_file = <<>>
    /\ session_state = [dashboard_output |-> <<>>, cleaned_df |-> <<>>]
    /\ run = Idle
    /\ dash_src = <<>>

\* clean_data on the uploaded file
CleanOnce ==
    /\ ret = <<>>
    /\ ret' = <<clean_data(arg)>>
    /\ UNCHANGED <<arg, ret2, uploaded_file, session_state, run, dash_src>>

\* clean_data on the DataFrame clean_data returned
CleanAgain ==
    /\ ret # <<>>
    /\ ret[1].err = ""
    /\ ret2 = <<>>
    /\ ret2' = <<clean_data(ret[1].df)>>
    /\ UNCHANGED <<arg, ret, uploaded_file, session_state, run, dash_src>>

NextClean == CleanOnce \/ CleanAgain

SpecClean == InitClean /\ [][NextClean]_vars

-----------------------------------------------------------------------------
(* Function-level specification of the aggregation *)

\* lines appended to a base dataset: sentiments that differ by case or are
\* absent, locations that tie with or are absent from the base, engagements
AggLines ==
    { Line(Text("2023-01-05"), Text("Twitter"), s, l, e, Text("Image")) :
        s \in {Text("Positive"), Text("positive"), NaN},
        l \in {Text("Berlin"), Text("Tokyo"), Text("Paris"), NaN},
        e \in {NaN, Float(500)} }

\* the row of a line under the header of df
AppendLine(df, line) ==
    [df EXCEPT !.rows = Append(df.rows, [i \in 1..Len(df.columns) |-> line[df.columns[i]]])]

NoAnswers == [key \in SeqToSet(Keys) |-> Failure]

InitAgg ==
    /\ arg \in { [df |-> b, appended |-> 0] :
                   b \in {generate_mock_data, read_csv(CsvFile(required_cols, <<>>))} }
    /\ ret = <<>>
    /\ ret2 = <<>>
    /\ uploaded_file = <<>>
    /\ session_state = [dashboard_output |-> <<>>, cleaned_df |-> <<>>]
    /\ run = Idle
    /\ dash_src = <<>>

\* one more record in the dataset
AddRecord ==
    /\ ret = <<>>
    /\ arg.appended < MaxExtraRows
    /\ \E line \in AggLines :
          arg' = [df |-> AppendLine(arg.df, line), appended |-> arg.appended + 1]
    /\ UNCHANGED <<ret, ret2, uploaded_file, session_state, run, dash_src>>

\* clean_data, then generate_charts_and_insights on its result
Aggregate ==
    /\ ret = <<>>
    /\ ret' = <<clean_data(arg.df)>>
    /\ ret2' = <<generate_charts_and_insights(clean_data(arg.df).df, FALSE, NoAnswers)>>
    /\ UNCHANGED <<arg, uploaded_file, session_state, run, dash_src>>

NextAgg == AddRecord \/ Aggregate

SpecAgg == InitAgg /\ [][NextAgg]_vars

-----------------------------------------------------------------------------
(* Function-level specification of the insight loop *)

\* the Canonical Datasets the loop is run on
AsmFrames ==
    { clean_data(generate_mock_data).df,
      clean_data(read_csv(CsvFile(ShuffledHeader,
          << Line(Text("2023-01-01"), Text("Twitter"), Text("Positive"), Text("London"),
                  Float(1200), Text("Image")) >>))).df }

\* what generate_content may give for one table
AnswerSet ==
    { Failure, Answer(<<"insight A">>), Answer(<<"insight A", "insight B", "insight C">>) }

InitAsm ==
    /\ arg \in [df : AsmFrames, api_key_configured : BOOLEAN,
                answers : [SeqToSet(Keys) -> AnswerSet]]
    /\ ret = <<>>
    /\ ret2 = <<>>
    /\ uploaded_file = <<>>
    /\ session_state = [dashboard_output |-> <<>>, cleaned_df |-> <<>>]
    /\ run = Idle
    /\ dash_src = <<>>

\* generate_charts_and_insights on the chosen dataset, credential and answers
Assemble ==
    /\ ret = <<>>
    /\ ret' = <<generate_charts_and_insights(arg.df, arg.api_key_configured, arg.answers)>>
    /\ UNCHANGED <<arg, ret2, uploaded_file, session_state, run, dash_src>>

NextAsm == Assemble

SpecAsm == InitAsm /\ [][NextAsm]_vars

-----------------------------------------------------------------------------
(* The script: one run, top to bottom *)

\* the elements of seq that are in keep, in the order of seq
Restrict(seq, keep) ==
    LET F[i \in 0..Len(seq)] ==
            IF i = 0 THEN <<>>
            ELSE IF seq[i] \in keep THEN Append(F[i - 1], seq[i]) ELSE F[i - 1]
    IN  F[Len(seq)]

\* variant of missing_cols: the condition is inverted
present_cols(df) ==
    Restrict(required_cols, {c \in SeqToSet(required_cols) : Positions(df, c) # {}})

\* [col for col in required_cols if col not in df_uploaded.columns]
missing_cols(df) ==
    Restrict(required_cols, {c \in SeqToSet(required_cols) : Positions(df, c) = {}})

\* pd.read_csv raises EmptyDataError on a file that has no columns
CsvReadable(file) == file.header # <<>>

\* variant of OnSchemaError: dashboard_output is not reset
OnSchemaErrorKeep(ss) == ss

\* the validation branch: dashboard_output is reset, then st.stop()
OnSchemaError(ss) == [ss EXCEPT !.dashboard_output = <<>>]

\* variant of OnException: only cleaned_df is reset
OnExceptionKeepDashboard(ss) == [ss EXCEPT !.cleaned_df = <<>>]

\* the except clause: both slots are reset
OnException(ss) == [ss EXCEPT !.dashboard_output = <<>>, !.cleaned_df = <<>>]

\* what a block leaves: the session state, how the run ended, and what it did
Outcome(ss, how, err, missing, cleaned, src) ==
    [ss |-> ss, outcome |-> how, error |-> err, missing |-> missing,
     cleaned |-> cleaned, src |-> src]

\* the two assignments of a processing run:
\*   session_state['cleaned_df'] = clean_data(df.copy())
\*   session_state['dashboard_output'] = generate_charts_and_insights(session_state['cleaned_df'])
\* err is the exception that ended them, if any; src is the DataFrame the
\* assigned dashboard was computed from
ProcessData(ss, df, api_key_configured, answers) ==
    LET c == clean_data(df) IN
    IF c.err # "" THEN [ss |-> ss, err |-> c.err, cleaned |-> FALSE, src |-> <<>>]
    ELSE
    LET ss1 == [ss EXCEPT !.cleaned_df = <<c.df>>]
        g   == generate_charts_and_insights(ss1.cleaned_df[1], api_key_configured, answers)
    IN  IF g.err # "" THEN [ss |-> ss1, err |-> g.err, cleaned |-> TRUE, src |-> <<>>]
        ELSE [ss |-> [ss1 EXCEPT !.dashboard_output = <<g.data>>], err |-> "",
              cleaned |-> TRUE, src |-> <<c.df>>]

\* `if uploaded_file:` with its try/except
UploadBlock(ss, file, process, api_key_configured, answers) ==
    IF ~CsvReadable(file)
    THEN Outcome(OnException(ss), "exception", "EmptyDataError", <<>>, FALSE, <<>>)
    ELSE
    LET df == read_csv(file) IN
    IF missing_cols(df) # <<>>
    THEN Outcome(OnSchemaError(ss), "stopped", "", missing_cols(df), FALSE, <<>>)
    ELSE IF ~process THEN Outcome(ss, "done", "", <<>>, FALSE, <<>>)
    ELSE
    LET p == ProcessData(ss, df, api_key_configured, answers) IN
    IF p.err # ""
    THEN Outcome(OnException(p.ss), "exception", p.err, <<>>, p.cleaned, <<>>)
    ELSE Outcome(p.ss, "done", "", <<>>, p.cleaned, p.src)

\* the else branch: the example dashboard; nothing catches an exception here
ExampleBlock(ss, example, api_key_configured, answers) ==
    IF ~example THEN Outcome(ss, "done", "", <<>>, FALSE, <<>>)
    ELSE
    LET p == ProcessData(ss, generate_mock_data, api_key_configured, answers) IN
    IF p.err # ""
    THEN Outcome(p.ss, "uncaught", p.err, <<>>, p.cleaned, <<>>)
    ELSE Outcome(p.ss, "done", "", <<>>, p.cleaned, p.src)

\* a whole run of the script with the widgets as given
Script(ss, file, process, example, api_key_configured, answers) ==
    IF file # <<>>
    THEN UploadBlock(ss, file[1], process, api_key_configured, answers)
    ELSE ExampleBlock(ss, example, api_key_configured, answers)

-----------------------------------------------------------------------------
(* The session *)

SessionLines ==
    { Line(Text("2023-01-01"), Text("Twitter"), Text("Positive"), Text("London"),
           Float(1200), Text("Image")),
      Line(Text("not a date"), Text("Twitter"), Text("Positive"), Text("London"),
           Float(1200), Text("Image")),
      Line(Text("2023-01-05"), Text("Facebook"), NaN, NaN, NaN, Text("Video")),
      Line(Text("2023-01-10"), Text("Twitter"), Text("Neutral"), Text("Paris"),
           Text("abc"), Text("Text")) }

\* every header that lacks some of the required columns, the empty file included
PartialHeaders ==
    { Restrict(required_cols, K) :
        K \in (SUBSET SeqToSet(required_cols)) \ {SeqToSet(required_cols)} }

\* headers that list the columns they keep in another order
ShuffledPartialHeaders ==
    { Restrict(ShuffledHeader, SeqToSet(required_cols) \ {Platform, Location}),
      Restrict(ShuffledHeader, {MediaType, Date}) }

\* the bodies of the files with a valid header
SessionBodies ==
    SeqsUpTo(SessionLines, 1)
    \cup
    { << CHOOSE l \in SessionLines : l[Date] = Text("2023-01-01"),
         CHOOSE l \in SessionLines : l[Date] = Text("2023-01-05") >> }

GoodLine == CHOOSE l \in SessionLines : l[Date] = Text("2023-01-01")

\* the files of the session specification: valid ones, two that lack columns,
\* and the empty file
SessionFiles ==
    { CsvFile(h, ls) : h \in ValidHeaders, ls \in SessionBodies }
    \cup
    { CsvFile(h, <<GoodLine>>) : h \in ShuffledPartialHeaders }
    \cup
    { CsvFile(<<>>, <<>>) }

\* the files of the validation specification: every partial header, and one
\* valid file
ValidationFiles ==
    { CsvFile(h, <<GoodLine>>) :
        h \in PartialHeaders \cup ShuffledPartialHeaders \cup {ShuffledHeader} }

\* the answers of one run: at most MaxFailures requests fail
SessionAnswers ==
    { a \in [SeqToSet(Keys) -> {Failure, Answer(<<"insight">>)}] :
        Cardinality({key \in SeqToSet(Keys) : ~a[key].ok}) <= MaxFailures }

Init ==
    /\ uploaded_file = <<>>
    /\ session_state = [dashboard_output |-> <<>>, cleaned_df |-> <<>>]
    /\ run = Idle
    /\ dash_src = <<>>
    /\ arg = <<>>
    /\ ret = <<>>
    /\ ret2 = <<>>

\* the run's record and the session it leaves
Ran(kind, o) ==
    /\ session_state' = o.ss
    /\ run' = [kind |-> kind, outcome |-> o.outcome, error |-> o.error,
               missing |-> o.missing, cleaned |-> o.cleaned,
               aggregated |-> o.src # <<>>,
               prior |-> session_state.dashboard_output # <<>>]
    /\ dash_src' = IF o.src # <<>> THEN o.src
                   ELSE IF o.ss.dashboard_output = <<>> THEN <<>> ELSE dash_src
    /\ UNCHANGED <<arg, ret, ret2>>

\* the user picks a file of F: the script runs with it, no button pressed
UploadFrom(F) ==
    \E f \in F :
        /\ uploaded_file' = <<f>>
        /\ \E o \in {Script(session_state, <<f>>, FALSE, FALSE, FALSE, NoAnswers)} :
              Ran("upload", o)

Upload == UploadFrom(SessionFiles)

\* the user presses "Proses Data"; the button exists only below a valid file
Process ==
    /\ uploaded_file # <<>>
    /\ CsvReadable(uploaded_file[1])
    /\ missing_cols(read_csv(uploaded_file[1])) = <<>>
    /\ \E k \in BOOLEAN, a \in SessionAnswers :
          \E o \in {Script(session_state, uploaded_file, TRUE, FALSE, k, a)} :
              Ran("process", o)
    /\ UNCHANGED uploaded_file

\* the user removes the file: the script runs without one, no button pressed
Remove ==
    /\ uploaded_file # <<>>
    /\ uploaded_file' = <<>>
    /\ \E o \in {Script(session_state, <<>>, FALSE, FALSE, FALSE, NoAnswers)} :
          Ran("remove", o)

\* the user presses "Tampilkan Contoh Dashboard"; it exists only without a file
Example ==
    /\ uploaded_file = <<>>
    /\ \E k \in BOOLEAN, a \in SessionAnswers :
          \E o \in {Script(session_state, <<>>, FALSE, TRUE, k, a)} :
              Ran("example", o)
    /\ UNCHANGED uploaded_file

\* any other interaction (a download button, the key field): the script runs again
Rerun ==
    /\ \E o \in {Script(session_state, uploaded_file, FALSE, FALSE, FALSE, NoAnswers)} :
          Ran("rerun", o)
    /\ UNCHANGED uploaded_file

Next == Upload \/ Process \/ Remove \/ Example \/ Rerun

Spec == Init /\ [][Next]_vars

-----------------------------------------------------------------------------
(* The session, with every header that fails validation *)

UploadHeader == UploadFrom(ValidationFiles)

NextValidate == UploadHeader \/ Process \/ Remove \/ Example

SpecValidate == Init /\ [][NextValidate]_vars

-----------------------------------------------------------------------------
(* Properties of the validation (checked under SpecValidate) *)

RequiredSet == SeqToSet(required_cols)

\* the position of a name in a sequence that holds it
IndexIn(seq, x) == CHOOSE i \in 1..Len(seq) : seq[i] = x

\* the required names as Python's sorted() orders them
SortedRequired == <<Date, Engagements, Location, MediaType, Platform, Sentiment>>

\* the uploaded file can be read and lacks a required column
LacksRequired ==
    /\ uploaded_file # <<>>
    /\ CsvReadable(uploaded_file[1])
    /\ RequiredSet \ SeqToSet(uploaded_file[1].header) # {}

\* the last run stopped at validation, before clean_data, and reported
\* exactly the missing names, each once, in the order of `order`
StoppedReporting(order) ==
    /\ run.outcome = "stopped"
    /\ ~run.cleaned
    /\ SeqToSet(run.missing) = RequiredSet \ SeqToSet(uploaded_file[1].header)
    /\ \A i, j \in 1..Len(run.missing) :
          i < j => IndexIn(order, run.missing[i]) < IndexIn(order, run.missing[j])

\* C1 as stated: a file that lacks a required field fails validation, is not
\* cleaned, and the reported missing names are in sorted order
C1_MissingReportedSorted == LacksRequired => StoppedReporting(SortedRequired)

\* C1 amended: a file that lacks a required field fails validation, is not
\* cleaned, and the reported missing names are exactly the missing required
\* names in the order of the required-column list
C1_MissingReportedInRequiredOrder == LacksRequired => StoppedReporting(required_cols)

\* C1 witness: validation stopped a run reporting Platform before Location
C1_Witness ==
    /\ LacksRequired
    /\ run.outcome = "stopped"
    /\ run.missing = <<Platform, Location>>

-----------------------------------------------------------------------------
(* Properties of the session (checked under Spec) *)

\* the last run failed with a missing-column error or a date-parse error
FailedValidationOrDate ==
    \/ run.outcome = "stopped"
    \/ run.outcome = "exception" /\ run.error = "DateParseError"

\* C2: when a run fails with a missing-column error or a date-parse error,
\* that run produced no table and the session stores no dashboard at its end
C2_NoDashboardAfterFailure ==
    FailedValidationOrDate =>
        /\ ~run.aggregated
        /\ session_state.dashboard_output = <<>>

\* C2 witness: a date-parse error ended a run that began with a dashboard stored
C2_Witness ==
    /\ run.outcome = "exception"
    /\ run.error = "DateParseError"
    /\ run.prior
    /\ session_state.dashboard_output = <<>>

-----------------------------------------------------------------------------
(* Properties of the insight loop (checked under SpecAsm) *)

KeySet == SeqToSet(Keys)

\* the tables whose request fails
Failing == {key \in KeySet : ~arg.answers[key].ok}

\* the run in which the failing request is answered instead
HadItNotFailed ==
    generate_charts_and_insights(arg.df, TRUE,
        [key \in KeySet |-> IF key \in Failing THEN Answer(<<"insight A">>)
                                             ELSE arg.answers[key]])

\* C3: with the requester configured and exactly one request failing, all five
\* records are assembled, the failing one holds the placeholder, and the
\* others are as they would be had that request not failed
C3_OneFailureIsolated ==
    (ret # <<>> /\ arg.api_key_configured /\ Cardinality(Failing) = 1) =>
        /\ ret[1].err = ""
        /\ DOMAIN ret[1].data = KeySet
        /\ \A key \in KeySet :
              IF key \in Failing
              THEN /\ ret[1].data[key].insights = Placeholder
                   /\ ret[1].data[key].chart = HadItNotFailed.data[key].chart
              ELSE /\ ret[1].data[key] = HadItNotFailed.data[key]
                   /\ ret[1].data[key].insights = arg.answers[key].insights

\* C3 witness: only the third of the five requests failed
C3_Witness ==
    /\ ret # <<>>
    /\ arg.api_key_configured
    /\ Failing = {"platform_engagements"}
    /\ ret[1].data["platform_engagements"].insights = Placeholder

\* C4 as stated: without a credential the run does not abort and every record
\* holds exactly one placeholder string
C4_PlaceholderWithoutCredential ==
    (ret # <<>> /\ ~arg.api_key_configured) =>
        /\ ret[1].err = ""
        /\ \A key \in KeySet : Len(ret[1].data[key].insights) = 1

\* C4 amended: without a credential the run does not abort and every one of
\* the five records holds an empty insight list
C4_EmptyWithoutCredential ==
    (ret # <<>> /\ ~arg.api_key_configured) =>
        /\ ret[1].err = ""
        /\ DOMAIN ret[1].data = KeySet
        /\ \A key \in KeySet : ret[1].data[key].insights = <<>>

\* C4 witness: the five records were assembled without a credential
C4_Witness ==
    /\ ret # <<>>
    /\ ~arg.api_key_configured
    /\ ret[1].err = ""
    /\ Len(arg.df.rows) > 0

-----------------------------------------------------------------------------
(* Properties of clean_data (checked under SpecClean) *)

Rows(df) == 1..Len(df.rows)

AllDatesParse(df) == \A r \in Rows(df) : DateParses(Column(df, Date)[r])

\* the Engagements of row r are absent, null or not a number
NotANumber(df, r) == Column(df, Engagements)[r].k \in {"nan", "nat", "str"}

\* C5 as stated: when every Date parses, cleaning succeeds and every absent,
\* null or non-numeric Engagements becomes 0
C5_NonNumericDefaulted ==
    (ret # <<>> /\ AllDatesParse(arg)) =>
        /\ ret[1].err = ""
        /\ \A r \in Rows(arg) :
              NotANumber(arg, r) => Column(ret[1].df, engagements)[r] = Int64(0)

\* C5 amended: cleaning fails exactly when some Date does not parse or some
\* Engagements is not a number and not null; when it succeeds every absent or
\* null Engagements has become 0
C5_NullDefaultedTextRejected ==
    ret # <<>> =>
        /\ ret[1].err # "" <=>
              \/ ~AllDatesParse(arg)
              \/ \E r \in Rows(arg) : Column(arg, Engagements)[r].k = "str"
        /\ (AllDatesParse(arg) /\ ret[1].err # "") => ret[1].err = "ValueError"
        /\ ret[1].err = "" =>
              \A r \in Rows(arg) :
                  IsNull(Column(arg, Engagements)[r]) =>
                      Column(ret[1].df, engagements)[r] = Int64(0)

\* C5 witness: a dataset with a null Engagements was cleaned
C5_Witness ==
    /\ ret # <<>>
    /\ ret[1].err = ""
    /\ \E r \in Rows(arg) : IsNull(Column(arg, Engagements)[r])

\* C6 as stated: cleaning the cleaned dataset succeeds and gives it back
C6_Idempotent ==
    ret2 # <<>> => (ret2[1].err = "" /\ ret2[1].df = ret[1].df)

\* C6 amended: cleaning the cleaned dataset fails, with a key error on 'Date'
C6_SecondCleaningFails ==
    ret2 # <<>> => ret2[1].err = "KeyError: 'Date'"

\* C6 witness: a cleaned dataset with records was cleaned again
C6_Witness ==
    /\ ret2 # <<>>
    /\ ret[1].err = ""
    /\ Len(ret[1].df.rows) > 0

\* the canonical field names in the order the specification lists them
CanonicalOrder == <<date, platform, sentiment, location, engagements, media_type>>

\* the canonical form of each label of the model's files
CanonicalName ==
    (Date :> date) @@ (Platform :> platform) @@ (Sentiment :> sentiment) @@
    (Location :> location) @@ (Engagements :> engagements) @@ (MediaType :> media_type) @@
    (Notes :> <<"n","o","t","e","s">>) @@ (date :> date)

\* C9 as stated: the output's field names are the canonical six in one fixed order
C9_FixedOrder ==
    (ret # <<>> /\ ret[1].err = "") => ret[1].df.columns = CanonicalOrder

\* C9 amended: the output's field names are the canonical forms of the
\* input's column names, in the input's column order; they are the canonical
\* six, as a set, when the input has the six required columns and no other
C9_InputOrderKept ==
    (ret # <<>> /\ ret[1].err = "") =>
        /\ Len(ret[1].df.columns) = Len(arg.columns)
        /\ \A i \in 1..Len(arg.columns) : ret[1].df.columns[i] = CanonicalName[arg.columns[i]]
        /\ SeqToSet(arg.columns) = RequiredSet =>
              SeqToSet(ret[1].df.columns) = SeqToSet(CanonicalOrder)

\* C9 witness: a file whose header is in another order was cleaned
C9_Witness ==
    /\ ret # <<>>
    /\ ret[1].err = ""
    /\ arg.columns = ShuffledHeader
    /\ Len(arg.rows) > 0

-----------------------------------------------------------------------------
(* Properties of the aggregation (checked under SpecAgg) *)

\* the Canonical Dataset and two of its tables
Canonical      == ret[1].df
SentimentTable == ret2[1].data["sentiment_breakdown"].chart
TopLocations   == ret2[1].data["top_locations"].chart

\* C7 as stated: the sentiment counts add up to the number of records
C7_CountsSumToRecords ==
    ret # <<>> => SumOver(SentimentTable, DOMAIN SentimentTable) = Len(Canonical.rows)

\* C7 amended: the sentiment counts add up to the number of records whose
\* sentiment is not absent
C7_CountsSumToNonNull ==
    ret # <<>> =>
        SumOver(SentimentTable, DOMAIN SentimentTable) =
            Cardinality({r \in Rows(Canonical) : ~IsNull(Column(Canonical, sentiment)[r])})

\* C7 witness: a dataset with absent and present sentiments was tallied
C7_Witness ==
    /\ ret # <<>>
    /\ \E r \in Rows(Canonical) : IsNull(Column(Canonical, sentiment)[r])
    /\ \E r \in Rows(Canonical) : ~IsNull(Column(Canonical, sentiment)[r])

\* the locations of the dataset and the engagements each sums to
LocationsOf(df) == {Column(df, location)[r].s : r \in NonNull(Column(df, location))}

RowsAt(df, l) == {r \in Rows(df) : Column(df, location)[r] = Text(l)}

Total(df, l) == SumOver([r \in Rows(df) |-> Column(df, engagements)[r].n], RowsAt(df, l))

\* the first record of a location
FirstRow(df, l) == CHOOSE r \in RowsAt(df, l) : \A q \in RowsAt(df, l) : r <= q

\* location a is ahead of location b: a greater sum, or an equal sum and the
\* smaller key
Ahead(df, key, a, b) ==
    \/ Total(df, a) > Total(df, b)
    \/ Total(df, a) = Total(df, b) /\ key[a] < key[b]

\* the table holds the first five locations of the order Ahead, in that order
TopFive(df, T, key) ==
    /\ Len(T) <= 5
    /\ Len(T) = 5 \/ Len(T) = Cardinality(LocationsOf(df))
    /\ \A i \in 1..Len(T) :
          /\ T[i].location \in LocationsOf(df)
          /\ T[i].engagements = Total(df, T[i].location)
    /\ \A i, j \in 1..Len(T) : i < j => Ahead(df, key, T[i].location, T[j].location)
    /\ \A l \in LocationsOf(df) :
          (\A i \in 1..Len(T) : T[i].location # l) =>
              \A i \in 1..Len(T) : Ahead(df, key, T[i].location, l)

\* the two orders among equal sums: first appearance, and name
ByFirstRow == [l \in LocationsOf(Canonical) |-> FirstRow(Canonical, l)]
ByName     == [l \in LocationsOf(Canonical) |-> StrRank(l)]

\* C8 as stated: at most five locations, the highest sums first, equal sums by
\* first appearance, and empty exactly when the dataset is empty
C8_TiesByFirstAppearance ==
    ret # <<>> =>
        /\ TopFive(Canonical, TopLocations, ByFirstRow)
        /\ TopLocations = <<>> <=> Canonical.rows = <<>>

\* C8 amended: at most five locations, the highest sums first, equal sums by
\* ascending location name, and empty exactly when no record has a location
C8_TiesByName ==
    ret # <<>> =>
        /\ TopFive(Canonical, TopLocations, ByName)
        /\ TopLocations = <<>> <=> LocationsOf(Canonical) = {}

\* C8 witness: more than five locations, two of them with equal sums whose
\* first appearance and name order differ
C8_Witness ==
    /\ ret # <<>>
    /\ Len(TopLocations) = 5
    /\ Cardinality(LocationsOf(Canonical)) > 5
    /\ \E a, b \in LocationsOf(Canonical) :
          /\ Total(Canonical, a) = Total(Canonical, b)
          /\ FirstRow(Canonical, a) < FirstRow(Canonical, b)
          /\ StrRank(b) < StrRank(a)

====
